---- MODULE Spec2Model ----
(***************************************************************************)
(* Model of pysnn/learning.py: the LearningRule base class and the two     *)
(* learning rules MSTDPET and FedeSTDP.                                    *)
(*                                                                         *)
(* Python objects are modelled with reference semantics: the mapping the   *)
(* caller passes to a constructor is ONE object (variable layers), and     *)
(* tensors live in a heap (variable tensor) and are named by identifiers,  *)
(* so that an in-place update is seen through every alias.                 *)
(*                                                                         *)
(* Tensor elements are real numbers computed exactly.  A real is kept in   *)
(* the canonical form  sum_i c_i * exp(e_i)  with rational coefficients    *)
(* c_i # 0 and pairwise different exponents e_i (themselves reals), as the *)
(* set of pairs <<e_i, c_i>>.  A rational q is q * exp(0).  The IEEE       *)
(* values inf, -inf and nan are abstracted to the one value NonFinite.     *)
(***************************************************************************)
EXTENDS Integers, Sequences, FiniteSets, TLC

(***************************************************************************)
(* Rational numbers <<n, d>> with d > 0 in lowest terms.                   *)
(***************************************************************************)
Abs(n) == IF n < 0 THEN -n ELSE n

RECURSIVE GCD(_, _)
GCD(a, b) == IF b = 0 THEN a ELSE GCD(b, a % b)

RNorm(n, d) ==
    LET s == IF d < 0 THEN -1 ELSE 1
        g == GCD(Abs(n), Abs(d))
    IN  <<(s * n) \div g, (s * d) \div g>>

RZero == <<0, 1>>
RAdd(a, b) == RNorm(a[1] * b[2] + b[1] * a[2], a[2] * b[2])
RMul(a, b) == RNorm(a[1] * b[1], a[2] * b[2])
RLess(a, b) == a[1] * b[2] < b[1] * a[2]

RECURSIVE RSum(_)
\* the sum of the rationals m[2] over a set of tagged rationals m = <<tag, q>>
RSum(S) ==
    IF S = {} THEN RZero
    ELSE LET m == CHOOSE x \in S : TRUE IN RAdd(m[2], RSum(S \ {m}))

(***************************************************************************)
(* Real numbers (the elements of a float tensor).                          *)
(***************************************************************************)
NonFinite == {<<{}, <<1, 0>>>>}
IsFinite(p) == p # NonFinite

Rat(n, d) == IF n = 0 THEN {} ELSE {<<{}, RNorm(n, d)>>}
Zero == Rat(0, 1)
One == Rat(1, 1)

Coef(p, e) == IF \E m \in p : m[1] = e THEN (CHOOSE m \in p : m[1] = e)[2] ELSE RZero
RatOf(p) == Coef(p, {})

Add(p, q) ==
    IF p = NonFinite \/ q = NonFinite THEN NonFinite
    ELSE LET all == {<<e, RAdd(Coef(p, e), Coef(q, e))>> : e \in {m[1] : m \in p \cup q}}
         IN  {m \in all : m[2][1] # 0}

Mul(p, q) ==
    IF p = NonFinite \/ q = NonFinite THEN NonFinite
    ELSE IF Cardinality(p) <= 1 \/ Cardinality(q) <= 1
    THEN \* one factor is a single term: the products have different exponents
         {<<Add(pr[1][1], pr[2][1]), RMul(pr[1][2], pr[2][2])>> : pr \in p \X q}
    ELSE LET prods == p \X q
             expo(pr) == Add(pr[1][1], pr[2][1])
             all == {<<e, RSum({<<pr, RMul(pr[1][2], pr[2][2])>> :
                                    pr \in {x \in prods : expo(x) = e}})>> :
                        e \in {expo(pr) : pr \in prods}}
         IN  {m \in all : m[2][1] # 0}

Neg(p) == Mul(Rat(-1, 1), p)
Sub(p, q) == Add(p, Neg(q))

\* torch.exp on one element
Exp(p) == IF p = NonFinite THEN NonFinite ELSE {<<p, <<1, 1>>>>}

\* p / q for a rational divisor q (a trace value); x / 0 is inf, -inf or nan
Div(p, q) ==
    IF p = NonFinite \/ q = NonFinite \/ q = Zero THEN NonFinite
    ELSE Mul(p, {<<{}, RNorm(RatOf(q)[2], RatOf(q)[1])>>})

RECURSIVE Pow(_, _)
Pow(p, k) == IF k = 0 THEN One ELSE Mul(p, Pow(p, k - 1))

(***************************************************************************)
(* Tensors.  A batched tensor is T[b][i][j] (a sequence of matrices), a    *)
(* weight is W[i][j].                                                      *)
(***************************************************************************)
Rows(T) == Len(T[1])
Cols(T) == Len(T[1][1])
Shape(T) == <<Len(T), Rows(T), Cols(T)>>

Max2(a, b) == IF a < b THEN b ELSE a
\* index into a dimension of size n under broadcasting
Bc(n, i) == IF n = 1 THEN 1 ELSE i

\* T.transpose(-2, -1)
Transpose(T) ==
    [b \in 1..Len(T) |-> [j \in 1..Cols(T) |-> [i \in 1..Rows(T) |-> T[b][i][j]]]]

\* X * Y on batched tensors, the last two dimensions broadcast
TMul(X, Y) ==
    [b \in 1..Len(X) |->
        [i \in 1..Max2(Rows(X), Rows(Y)) |->
            [j \in 1..Max2(Cols(X), Cols(Y)) |->
                Mul(X[b][Bc(Rows(X), i)][Bc(Cols(X), j)],
                    Y[b][Bc(Rows(Y), i)][Bc(Cols(Y), j)])]]]

TAdd(X, Y) ==
    [b \in 1..Len(X) |-> [i \in 1..Rows(X) |-> [j \in 1..Cols(X) |->
        Add(X[b][i][j], Y[b][i][j])]]]

TSub(X, Y) ==
    [b \in 1..Len(X) |-> [i \in 1..Rows(X) |-> [j \in 1..Cols(X) |->
        Sub(X[b][i][j], Y[b][i][j])]]]

\* T * s for a scalar s
TScale(T, s) ==
    [b \in 1..Len(T) |-> [i \in 1..Rows(T) |-> [j \in 1..Cols(T) |->
        Mul(T[b][i][j], s)]]]

\* torch.zeros_like(T)
ZerosLike(T) ==
    [b \in 1..Len(T) |-> [i \in 1..Rows(T) |-> [j \in 1..Cols(T) |-> Zero]]]

RECURSIVE SumTo(_, _, _, _)
\* T[1][i][j] + ... + T[n][i][j]
SumTo(T, n, i, j) == IF n = 0 THEN Zero ELSE Add(SumTo(T, n - 1, i, j), T[n][i][j])

\* T.mean(0): the mean over the batch dimension
Mean0(T) ==
    [i \in 1..Rows(T) |-> [j \in 1..Cols(T) |->
        Mul(SumTo(T, Len(T), i, j), Rat(1, Len(T)))]]

\* W + D and W * s on weight-shaped tensors
WAdd(W, D) == [i \in 1..Len(W) |-> [j \in 1..Len(W[1]) |-> Add(W[i][j], D[i][j])]]
WScale(W, s) == [i \in 1..Len(W) |-> [j \in 1..Len(W[1]) |-> Mul(W[i][j], s)]]

(***************************************************************************)
(* Python values.  A mapping is a record [type, items]; the items of the    *)
(* top-level mapping are an ordered sequence of <<key, value>> pairs (an    *)
(* OrderedDict keeps insertion order, and assigning to an existing key      *)
(* keeps the key's place), the items of a nested mapping are a function    *)
(* from its keys.  Keys are written as Python literals: "'fc1'" is the str *)
(* 'fc1' and "0" is the int 0.  A tensor is named by the identifier        *)
(* <<layer key, name>> of its place in the heap.                           *)
(***************************************************************************)
Py(type, items) == [type |-> type, items |-> items]
PyInt == Py("int", <<>>)

\* isinstance(v, (dict, OrderedDict)): OrderedDict is a subclass of dict
IsDict(v) == v.type \in {"dict", "OrderedDict"}

\* the first exception of  v[path[1]][path[2]]  or "none"
ItemError(v, path) ==
    IF ~IsDict(v) THEN "TypeError"
    ELSE IF path[1] \notin DOMAIN v.items THEN "KeyError"
    ELSE IF ~IsDict(v.items[path[1]]) THEN "TypeError"
    ELSE IF path[2] \notin DOMAIN v.items[path[1]].items THEN "KeyError"
    ELSE "none"

\* v[path[1]][path[2]]
Item(v, path) == v.items[path[1]].items[path[2]]

RECURSIVE FirstError(_, _, _)
\* the first exception among the subscript expressions paths[i..], in order
FirstError(v, paths, i) ==
    IF i > Len(paths) THEN "none"
    ELSE IF ItemError(v, paths[i]) # "none" THEN ItemError(v, paths[i])
    ELSE FirstError(v, paths, i + 1)

Keys(L) == {L.items[i][1] : i \in 1..Len(L.items)}
\* L[key] = value for a key L already has
SetItem(L, i, value) == [L EXCEPT !.items[i] = <<L.items[i][1], value>>]

(***************************************************************************)
(* LearningRule.check_layers: the exception it raises, or "none".          *)
(***************************************************************************)
check_layers(L) ==
    IF L.type # "OrderedDict"
    THEN \* the message  "..." + type(layers)  is str + type: TypeError
         "TypeError"
    ELSE IF Len(L.items) = 0 THEN "ValueError"
    ELSE IF ~IsDict(L.items[1][2])
    THEN \* the message is built first:  "..." + type(layers[0])  looks up the
         \* KEY 0 of the mapping; when there is one, str + type is a TypeError
         IF "0" \notin Keys(L) THEN "KeyError" ELSE "TypeError"
    ELSE "none"

(***************************************************************************)
(* Bounds and input sets.                                                  *)
(***************************************************************************)
MaxBatch == 2     \* batch sizes 1..MaxBatch
MaxCalls == 4     \* calls made on a constructed rule (forward passes included)
MaxFedeSteps == 1 \* FedeSTDP.step calls among them

\* (out_features, in_features) of the connection of a layer
Dims(key) == IF key = "'fc1'" THEN <<1, 1>> ELSE <<2, 1>>
NetKeys == {"'fc1'", "'fc2'"}

TensorId(key, name) == <<key, name>>

\* the state dicts of one layer, as the network hands them out
ConnectionState(key, names) ==
    Py("OrderedDict", [n \in names |-> TensorId(key, "connection." \o n)])
NeuronState(key) ==
    Py("OrderedDict", [n \in {"spikes", "trace"} |-> TensorId(key, "neuron." \o n)])
LayerRecord(key) ==
    Py("dict", [k \in {"connection", "neuron"} |->
        IF k = "connection" THEN ConnectionState(key, {"spikes", "trace", "weight"})
        ELSE NeuronState(key)])
\* malformed records
NoNeuron(key) ==
    Py("dict", [k \in {"connection"} |-> ConnectionState(key, {"spikes", "trace", "weight"})])
NoWeight(key) ==
    Py("dict", [k \in {"connection", "neuron"} |->
        IF k = "connection" THEN ConnectionState(key, {"spikes", "trace"})
        ELSE NeuronState(key)])

\* the layers arguments a caller passes to a constructor
LayersArgs ==
    { Py("list", << <<"0", LayerRecord("'fc1'")>> >>),
      Py("dict", << <<"'fc1'", LayerRecord("'fc1'")>> >>),
      Py("OrderedDict", <<>>),
      Py("OrderedDict", << <<"'fc1'", PyInt>> >>),
      Py("OrderedDict", << <<"0", PyInt>> >>),
      Py("OrderedDict", << <<"'fc1'", LayerRecord("'fc1'")>> >>),
      Py("OrderedDict", << <<"'fc1'", LayerRecord("'fc1'")>>, <<"'fc2'", LayerRecord("'fc2'")>> >>),
      Py("OrderedDict", << <<"'fc1'", LayerRecord("'fc1'")>>, <<"'fc2'", NoNeuron("'fc2'")>> >>),
      Py("OrderedDict", << <<"'fc1'", LayerRecord("'fc1'")>>, <<"'fc2'", PyInt>> >>),
      Py("OrderedDict", << <<"'fc1'", LayerRecord("'fc1'")>>, <<"'fc2'", NoWeight("'fc2'")>> >>),
      Py("OrderedDict", << <<"'fc1'", NoWeight("'fc1'")>> >>) }

\* what one forward pass of the network leaves in a layer's state: which
\* units spiked and the trace values.  A trace <<v, ramp>> has the value v
\* at the first element and grows by ramp * v per index step.
Snapshots ==
    { [pre |-> "odd",  post |-> "even", pre_trace |-> <<Rat(1, 2), 0>>, post_trace |-> <<Rat(3, 10), 0>>],
      [pre |-> "none", post |-> "none", pre_trace |-> <<Rat(1, 4), 1>>, post_trace |-> <<Rat(3, 10), 0>>],
      [pre |-> "all",  post |-> "all",  pre_trace |-> <<Zero, 0>>,      post_trace |-> <<One, 0>>],
      [pre |-> "even", post |-> "all",  pre_trace |-> <<Rat(-1, 1), 1>>, post_trace |-> <<Rat(1, 2), 1>>] }
FirstSnapshot ==
    [pre |-> "odd", post |-> "even", pre_trace |-> <<Rat(1, 2), 0>>, post_trace |-> <<Rat(3, 10), 0>>]

Fires(pattern, n) ==
    CASE pattern = "none" -> FALSE
      [] pattern = "all"  -> TRUE
      [] pattern = "odd"  -> n % 2 = 1
      [] pattern = "even" -> n % 2 = 0

\* a bool spike tensor and a float trace tensor of shape (B, rows, cols)
SpikeTensor(pattern, B, rows, cols) ==
    [b \in 1..B |-> [i \in 1..rows |-> [j \in 1..cols |-> Fires(pattern, b + i + j - 2)]]]
TraceTensor(tr, B, rows, cols) ==
    [b \in 1..B |-> [i \in 1..rows |-> [j \in 1..cols |->
        Mul(tr[1], Rat(1 + tr[2] * (b + i + j - 3), 1))]]]

LayerTensors(key, snap, B) ==
    LET o == Dims(key)[1]
        n == Dims(key)[2]
    IN  [name \in {"connection.spikes", "connection.trace", "neuron.spikes", "neuron.trace"} |->
            CASE name = "connection.spikes" -> SpikeTensor(snap.pre, B, o, n)
              [] name = "connection.trace"  -> TraceTensor(snap.pre_trace, B, o, n)
              [] name = "neuron.spikes"     -> SpikeTensor(snap.post, B, 1, o)
              [] name = "neuron.trace"      -> TraceTensor(snap.post_trace, B, 1, o)]

InitialWeight(key) == [i \in 1..Dims(key)[1] |-> [j \in 1..Dims(key)[2] |-> Rat(1, 2)]]

NetworkIds ==
    {TensorId(key, name) : key \in NetKeys,
        name \in {"connection.spikes", "connection.trace", "connection.weight",
                  "neuron.spikes", "neuron.trace"}}

InitialHeap(B) ==
    [id \in NetworkIds |->
        IF id[2] = "connection.weight" THEN InitialWeight(id[1])
        ELSE LayerTensors(id[1], FirstSnapshot, B)[id[2]]]

LrValues == {Rat(1, 100), Rat(1, 1)}
DecayValues == {Rat(1, 1), Rat(1, 2)}
Rewards == {Zero, Rat(2, 1), Rat(-1, 1)}
FedeLrValues == {Rat(-1, 1), Zero, Rat(1, 10)}
FedeAValues == {Rat(-1, 2), Zero, One, Rat(3, 2)}
WInitValues == {Zero}

(***************************************************************************)
(* State.                                                                  *)
(***************************************************************************)
VARIABLES
    layers,     \* the mapping object the caller passes as `layers` (the caller keeps it)
    tensor,     \* the tensor heap: identifier -> contents
    self,       \* the rule instance under construction / constructed
    pc,         \* "new": no constructor called; "ready": constructed; "raised"
    exc,        \* the exception the constructor raised, or "none"
    lastOp,     \* the last call made: <<name, argument>>
    impulse,    \* observer of update_state: the impulse fed from a zero trace, and
                \* the number of all-zero-spike update_state calls since
    ncalls,     \* number of calls made on the constructed rule
    nsteps      \* number of FedeSTDP.step calls among them

vars == <<layers, tensor, self, pc, exc, lastOp, impulse, ncalls, nsteps>>

NoAttrs == [x \in {} |-> Zero]
NoImpulse == [on |-> FALSE, I |-> <<>>, k |-> 0]

Init ==
    /\ layers \in LayersArgs
    /\ \E B \in 1..MaxBatch : tensor = InitialHeap(B)
    /\ self = [cls |-> "none", attrs |-> NoAttrs, defaults |-> NoAttrs, layers |-> "unset"]
    /\ pc = "new"
    /\ exc = "none"
    /\ lastOp = <<"none", Zero>>
    /\ impulse = NoImpulse
    /\ ncalls = 0
    /\ nsteps = 0

\* self.layers is a reference to the caller's mapping object
SelfLayers == layers

Raise(e, L, T) ==
    /\ pc' = "raised"
    /\ exc' = e
    /\ layers' = L
    /\ tensor' = T
    /\ UNCHANGED <<lastOp, impulse, ncalls, nsteps>>

(***************************************************************************)
(* LearningRule.__init__                                                   *)
(***************************************************************************)
LearningRule_init(s, defaults) == [s EXCEPT !.defaults = defaults, !.layers = "arg"]

(***************************************************************************)
(* MSTDPET.__init__                                                        *)
(***************************************************************************)
MSTDPET_paths ==
    << <<"connection", "spikes">>, <<"connection", "trace">>, <<"neuron", "spikes">>,
       <<"neuron", "trace">>, <<"connection", "weight">>, <<"connection", "trace">> >>

MSTDPET_new_layer(key, layer) ==
    Py("dict",
       [k \in {"pre_spikes", "pre_trace", "post_spikes", "post_trace", "weight", "e_trace"} |->
            CASE k = "pre_spikes"  -> Item(layer, <<"connection", "spikes">>)
              [] k = "pre_trace"   -> Item(layer, <<"connection", "trace">>)
              [] k = "post_spikes" -> Item(layer, <<"neuron", "spikes">>)
              [] k = "post_trace"  -> Item(layer, <<"neuron", "trace">>)
              [] k = "weight"      -> Item(layer, <<"connection", "weight">>)
              [] k = "e_trace"     -> TensorId(key, "e_trace")])

RECURSIVE MSTDPET_collect(_, _, _)
\* the loop over layers.items() from entry i on: the mapping, the heap and
\* the exception that ends it
MSTDPET_collect(L, T, i) ==
    IF i > Len(L.items) THEN [layers |-> L, tensor |-> T, exc |-> "none"]
    ELSE LET key == L.items[i][1]
             layer == L.items[i][2]
             e == FirstError(layer, MSTDPET_paths, 1)
         IN  IF e # "none" THEN [layers |-> L, tensor |-> T, exc |-> e]
             ELSE LET new_layer == MSTDPET_new_layer(key, layer)
                      zeros == ZerosLike(T[Item(layer, <<"connection", "trace">>)])
                      T1 == [id \in DOMAIN T \cup {new_layer.items.e_trace} |->
                                IF id = new_layer.items.e_trace THEN zeros ELSE T[id]]
                  IN  MSTDPET_collect(SetItem(L, i, new_layer), T1, i + 1)

MSTDPET_init(a_pre, a_post, lr, e_trace_decay) ==
    /\ pc = "new"
    /\ LET e == check_layers(layers)
           got == MSTDPET_collect(layers, tensor, 1)
           hyper == [k \in {"a_pre", "a_post", "lr", "e_trace_decay"} |->
                        CASE k = "a_pre" -> a_pre
                          [] k = "a_post" -> a_post
                          [] k = "lr" -> lr
                          [] k = "e_trace_decay" -> e_trace_decay]
       IN  IF e # "none"
           THEN /\ Raise(e, layers, tensor)
                /\ self' = [self EXCEPT !.cls = "MSTDPET"]
           ELSE IF got.exc # "none"
           THEN /\ Raise(got.exc, got.layers, got.tensor)
                /\ self' = [self EXCEPT !.cls = "MSTDPET"]
           ELSE /\ layers' = got.layers
                /\ tensor' = got.tensor
                /\ self' = LearningRule_init(
                               [self EXCEPT !.cls = "MSTDPET", !.attrs = hyper], hyper)
                /\ pc' = "ready"
                /\ UNCHANGED <<exc, lastOp, impulse, ncalls, nsteps>>

(***************************************************************************)
(* MSTDPET.update_state, reset_state, step                                 *)
(***************************************************************************)
\* spikes.float(): True is 1.0 and False is 0.0
Float(T) ==
    [b \in 1..Len(T) |-> [i \in 1..Rows(T) |-> [j \in 1..Cols(T) |->
        IF T[b][i][j] THEN One ELSE Zero]]]

\* update_state with the decay applied after the two terms are added
MSTDPET_update_layer_DecayLast(T, rec, e_trace_decay) ==
    LET e == rec.e_trace
        T1 == [T EXCEPT ![e] =
                  TAdd(T[e], Transpose(TMul(Float(T[rec.post_spikes]),
                                            Transpose(T[rec.pre_trace]))))]
        T2 == [T1 EXCEPT ![e] =
                  TSub(T1[e], Transpose(TMul(Transpose(Float(T1[rec.pre_spikes])),
                                             T1[rec.post_trace])))]
    IN  [T2 EXCEPT ![e] = TScale(T2[e], e_trace_decay)]

\* update_state with the potentiation and depression terms exchanged
MSTDPET_update_layer_Swapped(T, rec, e_trace_decay) ==
    LET e == rec.e_trace
        T1 == [T EXCEPT ![e] = TScale(T[e], e_trace_decay)]
        T2 == [T1 EXCEPT ![e] =
                  TSub(T1[e], Transpose(TMul(Float(T1[rec.post_spikes]),
                                             Transpose(T1[rec.pre_trace]))))]
    IN  [T2 EXCEPT ![e] =
            TAdd(T2[e], Transpose(TMul(Transpose(Float(T2[rec.pre_spikes])),
                                       T2[rec.post_trace])))]

\* the in-place statements of update_state on one working record
MSTDPET_update_layer(T, rec, e_trace_decay) ==
    LET e == rec.e_trace
        T1 == [T EXCEPT ![e] = TScale(T[e], e_trace_decay)]
        T2 == [T1 EXCEPT ![e] =
                  TAdd(T1[e], Transpose(TMul(Float(T1[rec.post_spikes]),
                                             Transpose(T1[rec.pre_trace]))))]
        T3 == [T2 EXCEPT ![e] =
                  TSub(T2[e], Transpose(TMul(Transpose(Float(T2[rec.pre_spikes])),
                                             T2[rec.post_trace])))]
    IN  T3

RECURSIVE MSTDPET_update_layers(_, _, _, _)
\* for layer in self.layers.values(), from entry i on
MSTDPET_update_layers(L, T, i, e_trace_decay) ==
    IF i > Len(L.items) THEN T
    ELSE MSTDPET_update_layers(
             L, MSTDPET_update_layer(T, L.items[i][2].items, e_trace_decay), i + 1,
             e_trace_decay)

\* what the spikes and traces of one layer contribute to its eligibility
\* trace in one update_state call: post_spikes * pre_trace - pre_spikes * post_trace
Contribution(T, rec) ==
    [b \in 1..Len(T[rec.pre_trace]) |->
        [o \in 1..Rows(T[rec.pre_trace]) |->
            [n \in 1..Cols(T[rec.pre_trace]) |->
                Sub(IF T[rec.post_spikes][b][1][o] THEN T[rec.pre_trace][b][o][n] ELSE Zero,
                    IF T[rec.pre_spikes][b][o][n] THEN T[rec.post_trace][b][1][o] ELSE Zero)]]]

HasSpike(T) == \E b \in 1..Len(T) : \E i \in 1..Rows(T) : \E j \in 1..Cols(T) : T[b][i][j]
NoSpikes(L, T) ==
    \A i \in 1..Len(L.items) :
        /\ ~HasSpike(T[L.items[i][2].items.pre_spikes])
        /\ ~HasSpike(T[L.items[i][2].items.post_spikes])
ZeroTraces(L, T) ==
    \A i \in 1..Len(L.items) :
        T[L.items[i][2].items.e_trace] = ZerosLike(T[L.items[i][2].items.e_trace])

\* the observer of update_state
Observe(L, T) ==
    IF ZeroTraces(L, T)
    THEN [on |-> TRUE, I |-> [i \in 1..Len(L.items) |-> Contribution(T, L.items[i][2].items)],
          k |-> 0]
    ELSE IF impulse.on /\ NoSpikes(L, T) THEN [impulse EXCEPT !.k = @ + 1]
    ELSE NoImpulse

MSTDPET_update_state ==
    /\ pc = "ready" /\ self.cls = "MSTDPET" /\ ncalls < MaxCalls
    /\ tensor' = MSTDPET_update_layers(SelfLayers, tensor, 1, self.attrs.e_trace_decay)
    /\ impulse' = Observe(SelfLayers, tensor)
    /\ lastOp' = <<"update_state", Zero>>
    /\ ncalls' = ncalls + 1
    /\ UNCHANGED <<layers, self, pc, exc, nsteps>>

\* reset_state that fills copies of the traces and leaves the traces alone
MSTDPET_reset_layers_Copy(L, T, i) == T

\* T.fill_(v)
Fill(T, v) == [b \in 1..Len(T) |-> [i \in 1..Rows(T) |-> [j \in 1..Cols(T) |-> v]]]

RECURSIVE MSTDPET_reset_layers(_, _, _)
MSTDPET_reset_layers(L, T, i) ==
    IF i > Len(L.items) THEN T
    ELSE LET e == L.items[i][2].items.e_trace
         IN  MSTDPET_reset_layers(L, [T EXCEPT ![e] = Fill(T[e], Zero)], i + 1)

MSTDPET_reset_state ==
    /\ pc = "ready" /\ self.cls = "MSTDPET" /\ ncalls < MaxCalls
    /\ tensor' = MSTDPET_reset_layers(SelfLayers, tensor, 1)
    /\ impulse' = NoImpulse
    /\ lastOp' = <<"reset_state", Zero>>
    /\ ncalls' = ncalls + 1
    /\ UNCHANGED <<layers, self, pc, exc, nsteps>>

\* step with the sum over the batch in place of the mean
MSTDPET_step_layer_Sum(T, rec, lr, reward) ==
    [T EXCEPT ![rec.weight] =
        WAdd(T[rec.weight],
             WScale([i \in 1..Rows(T[rec.e_trace]) |-> [j \in 1..Cols(T[rec.e_trace]) |->
                        SumTo(T[rec.e_trace], Len(T[rec.e_trace]), i, j)]],
                    Mul(lr, reward)))]

\* step that also clears the eligibility trace it has used
MSTDPET_step_layer_Clear(T, rec, lr, reward) ==
    [T EXCEPT ![rec.weight] = WAdd(T[rec.weight],
                                   WScale(Mean0(T[rec.e_trace]), Mul(lr, reward))),
              ![rec.e_trace] = ZerosLike(T[rec.e_trace])]

\* layer["weight"] += self.lr * reward * layer["e_trace"].mean(0)
MSTDPET_step_layer(T, rec, lr, reward) ==
    [T EXCEPT ![rec.weight] = WAdd(T[rec.weight], WScale(Mean0(T[rec.e_trace]), Mul(lr, reward)))]

RECURSIVE MSTDPET_step_layers(_, _, _, _, _)
MSTDPET_step_layers(L, T, i, lr, reward) ==
    IF i > Len(L.items) THEN T
    ELSE MSTDPET_step_layers(
             L, MSTDPET_step_layer(T, L.items[i][2].items, lr, reward), i + 1, lr, reward)

MSTDPET_step(reward) ==
    /\ pc = "ready" /\ self.cls = "MSTDPET" /\ ncalls < MaxCalls
    /\ tensor' = MSTDPET_step_layers(SelfLayers, tensor, 1, self.attrs.lr, reward)
    /\ lastOp' = <<"step", reward>>
    /\ ncalls' = ncalls + 1
    /\ UNCHANGED <<layers, self, pc, exc, impulse, nsteps>>

(***************************************************************************)
(* The network: a forward pass writes new spikes and traces into the       *)
(* state tensors of every layer, in place.                                 *)
(***************************************************************************)
Forward(snap) ==
    /\ pc = "ready" /\ ncalls < MaxCalls
    /\ tensor' = [id \in DOMAIN tensor |->
                    IF id[2] \in {"connection.spikes", "connection.trace",
                                  "neuron.spikes", "neuron.trace"}
                    THEN LayerTensors(id[1], snap, Len(tensor[id]))[id[2]]
                    ELSE tensor[id]]
    /\ lastOp' = <<"forward", Zero>>
    /\ ncalls' = ncalls + 1
    /\ UNCHANGED <<layers, self, pc, exc, impulse, nsteps>>

(***************************************************************************)
(* FedeSTDP.__init__                                                       *)
(***************************************************************************)
Positive(p) == RLess(RZero, RatOf(p))
LessEq(p, q) == ~RLess(RatOf(q), RatOf(p))

FedeSTDP_paths == << <<"connection", "trace">>, <<"connection", "weight">> >>

FedeSTDP_new_layer(layer) ==
    Py("dict",
       [k \in {"trace", "weight"} |->
            IF k = "trace" THEN Item(layer, <<"connection", "trace">>)
            ELSE Item(layer, <<"connection", "weight">>)])

RECURSIVE FedeSTDP_collect(_, _)
\* the loop over layers.items() from entry i on: the mapping and the
\* exception that ends it
FedeSTDP_collect(L, i) ==
    IF i > Len(L.items) THEN [layers |-> L, exc |-> "none"]
    ELSE LET e == FirstError(L.items[i][2], FedeSTDP_paths, 1)
         IN  IF e # "none" THEN [layers |-> L, exc |-> e]
             ELSE FedeSTDP_collect(SetItem(L, i, FedeSTDP_new_layer(L.items[i][2])), i + 1)

\* the constructor with the layers checked before the hyperparameters
FedeSTDP_init_LayersFirst(lr, w_init, a) ==
    /\ pc = "new"
    /\ LET e == check_layers(layers)
           got == FedeSTDP_collect(layers, 1)
           hyper == [k \in {"lr", "w_init", "a"} |->
                        CASE k = "lr" -> lr [] k = "w_init" -> w_init [] k = "a" -> a]
       IN  IF e # "none"
           THEN /\ Raise(e, layers, tensor)
                /\ self' = [self EXCEPT !.cls = "FedeSTDP"]
           ELSE IF ~Positive(lr) \/ ~(LessEq(a, One) /\ LessEq(Zero, a))
           THEN /\ Raise("AssertionError", layers, tensor)
                /\ self' = [self EXCEPT !.cls = "FedeSTDP"]
           ELSE IF got.exc # "none"
           THEN /\ Raise(got.exc, got.layers, tensor)
                /\ self' = [self EXCEPT !.cls = "FedeSTDP", !.attrs = hyper]
           ELSE /\ layers' = got.layers
                /\ self' = LearningRule_init(
                               [self EXCEPT !.cls = "FedeSTDP", !.attrs = hyper], hyper)
                /\ pc' = "ready"
                /\ UNCHANGED <<tensor, exc, lastOp, impulse, ncalls, nsteps>>

FedeSTDP_init(lr, w_init, a) ==
    /\ pc = "new"
    /\ LET e == check_layers(layers)
           got == FedeSTDP_collect(layers, 1)
           hyper == [k \in {"lr", "w_init", "a"} |->
                        CASE k = "lr" -> lr [] k = "w_init" -> w_init [] k = "a" -> a]
       IN  IF ~Positive(lr)
           THEN /\ Raise("AssertionError", layers, tensor)
                /\ self' = [self EXCEPT !.cls = "FedeSTDP"]
           ELSE IF ~(LessEq(a, One) /\ LessEq(Zero, a))
           THEN /\ Raise("AssertionError", layers, tensor)
                /\ self' = [self EXCEPT !.cls = "FedeSTDP"]
           ELSE IF e # "none"
           THEN /\ Raise(e, layers, tensor)
                /\ self' = [self EXCEPT !.cls = "FedeSTDP"]
           ELSE IF got.exc # "none"
           THEN /\ Raise(got.exc, got.layers, tensor)
                /\ self' = [self EXCEPT !.cls = "FedeSTDP", !.attrs = hyper]
           ELSE /\ layers' = got.layers
                /\ self' = LearningRule_init(
                               [self EXCEPT !.cls = "FedeSTDP", !.attrs = hyper], hyper)
                /\ pc' = "ready"
                /\ UNCHANGED <<tensor, exc, lastOp, impulse, ncalls, nsteps>>

(***************************************************************************)
(* FedeSTDP.step                                                           *)
(***************************************************************************)
\* the elements of T in row-major order
Flat(T) ==
    [n \in 1..(Len(T) * Rows(T) * Cols(T)) |->
        T[((n - 1) \div (Rows(T) * Cols(T))) + 1]
         [(((n - 1) \div Cols(T)) % Rows(T)) + 1]
         [((n - 1) % Cols(T)) + 1]]

\* T.view(-1, *w.shape)
View(T, W) ==
    LET f == Flat(T)
        r == Len(W)
        c == Len(W[1])
    IN  [b \in 1..(Len(f) \div (r * c)) |-> [i \in 1..r |-> [j \in 1..c |->
            f[((b - 1) * r + (i - 1)) * c + j]]]]

RECURSIVE MaxTo(_, _)
MaxTo(f, n) ==
    IF n = 1 THEN f[1]
    ELSE LET m == MaxTo(f, n - 1)
         IN  IF RLess(RatOf(m), RatOf(f[n])) THEN f[n] ELSE m

\* T.max(): the maximum over all elements
TMax(T) == MaxTo(Flat(T), Len(Flat(T)))

\* the trace used as it is, without the division by its maximum
Normalize_None(trace) == trace

\* norm_trace = trace / trace.max()
Normalize(trace) ==
    LET m == TMax(trace)
    IN  [b \in 1..Len(trace) |-> [i \in 1..Rows(trace) |-> [j \in 1..Cols(trace) |->
            Div(trace[b][i][j], m)]]]

\* elementwise operations on weight-shaped (W) and batched (T) tensors
WSubScalar(W, s) == [i \in 1..Len(W) |-> [j \in 1..Len(W[1]) |-> Sub(W[i][j], s)]]
WNeg(W) == [i \in 1..Len(W) |-> [j \in 1..Len(W[1]) |-> Neg(W[i][j])]]
WExp(W) == [i \in 1..Len(W) |-> [j \in 1..Len(W[1]) |-> Exp(W[i][j])]]
TExp(T) ==
    [b \in 1..Len(T) |-> [i \in 1..Rows(T) |-> [j \in 1..Cols(T) |-> Exp(T[b][i][j])]]]
TSubScalar(T, s) ==
    [b \in 1..Len(T) |-> [i \in 1..Rows(T) |-> [j \in 1..Cols(T) |-> Sub(T[b][i][j], s)]]]
ScalarSubT(s, T) ==
    [b \in 1..Len(T) |-> [i \in 1..Rows(T) |-> [j \in 1..Cols(T) |-> Sub(s, T[b][i][j])]]]

\* W * T, the weight-shaped W broadcast over the batch
BMul(W, T) ==
    [b \in 1..Len(T) |-> [i \in 1..Rows(T) |-> [j \in 1..Cols(T) |->
        Mul(W[i][j], T[b][i][j])]]]

\* lr * (ltp + ltd).mean(0) for one layer
FedeSTDP_dw(w, layer_trace, lr, w_init, a) ==
    LET trace == View(layer_trace, w)
        norm_trace == Normalize(trace)
        dw == WSubScalar(w, w_init)
        ltp_w == WExp(WNeg(dw))
        ltp_t == TSubScalar(TExp(norm_trace), a)
        ltp == BMul(ltp_w, ltp_t)
        ltd_w == WNeg(WExp(dw))
        ltd_t == TSubScalar(TExp(ScalarSubT(One, norm_trace)), a)
        ltd == BMul(ltd_w, ltd_t)
    IN  WScale(Mean0(TAdd(ltp, ltd)), lr)

FedeSTDP_step_layer(T, rec, lr, w_init, a) ==
    [T EXCEPT ![rec.weight] = WAdd(T[rec.weight],
                                   FedeSTDP_dw(T[rec.weight], T[rec.trace], lr, w_init, a))]

RECURSIVE FedeSTDP_step_layers(_, _, _, _, _, _)
FedeSTDP_step_layers(L, T, i, lr, w_init, a) ==
    IF i > Len(L.items) THEN T
    ELSE FedeSTDP_step_layers(
             L, FedeSTDP_step_layer(T, L.items[i][2].items, lr, w_init, a), i + 1,
             lr, w_init, a)

FedeSTDP_step ==
    /\ pc = "ready" /\ self.cls = "FedeSTDP" /\ ncalls < MaxCalls /\ nsteps < MaxFedeSteps
    /\ tensor' = FedeSTDP_step_layers(SelfLayers, tensor, 1,
                                      self.attrs.lr, self.attrs.w_init, self.attrs.a)
    /\ lastOp' = <<"step", Zero>>
    /\ ncalls' = ncalls + 1
    /\ nsteps' = nsteps + 1
    /\ UNCHANGED <<layers, self, pc, exc, impulse>>

(***************************************************************************)
(* Specification.                                                          *)
(***************************************************************************)
Next ==
    \/ \E lr \in LrValues, d \in DecayValues : MSTDPET_init(One, One, lr, d)
    \/ \E lr \in FedeLrValues, w \in WInitValues, a \in FedeAValues : FedeSTDP_init(lr, w, a)
    \/ MSTDPET_update_state
    \/ MSTDPET_reset_state
    \/ \E r \in Rewards : MSTDPET_step(r)
    \/ FedeSTDP_step
    \/ \E snap \in Snapshots : Forward(snap)

Spec == Init /\ [][Next]_vars

(***************************************************************************)
(* Properties.                                                             *)
(***************************************************************************)
\* the working record of the i-th layer of a constructed rule
Rec(i) == layers.items[i][2].items
LayerIndex == 1..Len(layers.items)
Ready(cls) == pc = "ready" /\ self.cls = cls
WeightsChanged ==
    \E i \in LayerIndex : tensor[Rec(i).weight] # InitialWeight(layers.items[i][1])
BatchMean(e, o, n) == Mul(SumTo(e, Len(e), o, n), Rat(1, Len(e)))

\* C1 (as claimed): when construction stops in check_layers on an OrderedDict,
\* an empty mapping gives ValueError and a first value that is no dict gives
\* TypeError, whatever the keys are.
C1_CheckLayersErrors ==
    (pc = "raised" /\ exc # "AssertionError" /\ layers.type = "OrderedDict") =>
        /\ (Len(layers.items) = 0 => exc = "ValueError")
        /\ (Len(layers.items) > 0 /\ ~IsDict(layers.items[1][2]) => exc = "TypeError")

\* C2: a FedeSTDP constructor call with lr <= 0 or a outside [0, 1] ends in
\* AssertionError and leaves the caller's mapping and every tensor as they
\* were, whatever the layers argument is.
C2_AssertBeforeLayers ==
    [][\A lr \in FedeLrValues, w \in WInitValues, a \in FedeAValues :
            (FedeSTDP_init(lr, w, a) /\ (~Positive(lr) \/ ~LessEq(a, One) \/ ~LessEq(Zero, a)))
            => (pc' = "raised" /\ exc' = "AssertionError"
                /\ layers' = layers /\ tensor' = tensor)]_vars

\* C2 witness: the assertion won over a layers argument of the wrong type
C2_Witness ==
    /\ pc = "raised" /\ self.cls = "FedeSTDP" /\ exc = "AssertionError"
    /\ layers.type = "list"

\* C3: step(r) adds lr * r * mean over the batch of the layer's eligibility
\* trace to every element of every layer's weight, with the one r for all
\* layers; step(0) leaves every weight as it was.
C3_StepAddsScaledMean ==
    [][\A r \in Rewards :
            MSTDPET_step(r) =>
                \A i \in LayerIndex :
                    LET w == tensor[Rec(i).weight]
                        e == tensor[Rec(i).e_trace]
                    IN  /\ \A o \in 1..Len(w) : \A n \in 1..Len(w[1]) :
                               tensor'[Rec(i).weight][o][n] =
                                   Add(w[o][n],
                                       Mul(Mul(self.attrs.lr, r), BatchMean(e, o, n)))
                        /\ (r = Zero => tensor'[Rec(i).weight] = w)]_vars

\* C3 witness: a step with reward 2 has changed the weights of a rule of two layers
C3_Witness ==
    /\ Ready("MSTDPET") /\ lastOp = <<"step", Rat(2, 1)>>
    /\ Len(layers.items) = 2
    /\ \A i \in LayerIndex :
           /\ tensor[Rec(i).weight] # InitialWeight(layers.items[i][1])
           /\ BatchMean(tensor[Rec(i).e_trace], 1, 1) # Zero

\* C4: reset_state leaves every eligibility trace all zero with the shape it
\* had (the shape of the connection trace), and every weight as it was.
C4_ResetZeroesTraces ==
    [][MSTDPET_reset_state =>
            \A i \in LayerIndex :
                /\ Shape(tensor'[Rec(i).e_trace]) = Shape(tensor[Rec(i).e_trace])
                /\ Shape(tensor'[Rec(i).e_trace]) = Shape(tensor[Rec(i).pre_trace])
                /\ \A b \in 1..Len(tensor[Rec(i).e_trace]) :
                   \A o \in 1..Rows(tensor[Rec(i).e_trace]) :
                   \A n \in 1..Cols(tensor[Rec(i).e_trace]) :
                       tensor'[Rec(i).e_trace][b][o][n] = Zero
                /\ tensor'[Rec(i).weight] = tensor[Rec(i).weight]]_vars

\* C4 witness: a reset after the traces had built up and a step had used them
C4_Witness ==
    /\ Ready("MSTDPET") /\ lastOp[1] = "reset_state"
    /\ Len(layers.items) = 2
    /\ WeightsChanged
    /\ ZeroTraces(layers, tensor)

\* C5: from a zero eligibility trace, an update_state call that feeds the
\* impulse I followed by k update_state calls that see no spike leaves the
\* trace at I * e_trace_decay^k (k = 0: the impulse is not decayed).
C5_ImpulseDecay ==
    (Ready("MSTDPET") /\ impulse.on) =>
        \A i \in LayerIndex :
            tensor[Rec(i).e_trace] =
                TScale(impulse.I[i], Pow(self.attrs.e_trace_decay, impulse.k))

\* C5 witness: a non-zero impulse has decayed twice with a decay other than 1
C5_Witness ==
    /\ Ready("MSTDPET") /\ impulse.on /\ impulse.k = 2
    /\ self.attrs.e_trace_decay = Rat(1, 2)
    /\ \A i \in LayerIndex : impulse.I[i] # ZerosLike(impulse.I[i])

\* the scenario of C6: one layer with a single synapse, batch size 2,
\* e_trace_decay = 1, lr = 0.01, the spikes and traces of the first forward pass
C6_Scenario ==
    /\ Ready("MSTDPET")
    /\ Len(layers.items) = 1 /\ layers.items[1][1] = "'fc1'"
    /\ Shape(tensor[Rec(1).e_trace]) = <<2, 1, 1>>
    /\ self.attrs.e_trace_decay = One /\ self.attrs.lr = Rat(1, 100)
C6_AfterUpdate == C6_Scenario /\ ncalls = 1 /\ lastOp[1] = "update_state"
C6_AfterStep ==
    /\ C6_Scenario /\ ncalls = 2 /\ lastOp = <<"step", Rat(2, 1)>>
    /\ ~ZeroTraces(layers, tensor)

\* C6 (as claimed): one update_state makes the trace [-0.5, 0.3] and the
\* following step(2) adds -0.002 to the weight.
C6_Original ==
    /\ C6_AfterUpdate =>
           tensor[Rec(1).e_trace] = << << <<Rat(-1, 2)>> >>, << <<Rat(3, 10)>> >> >>
    /\ C6_AfterStep =>
           tensor[Rec(1).weight] = << <<Add(Rat(1, 2), Rat(-2, 1000))>> >>

\* C6 (amended): one update_state makes the trace [-0.3, 0.5] and the
\* following step(2) adds +0.002 to the weight.
C6_EndToEnd ==
    /\ C6_AfterUpdate =>
           tensor[Rec(1).e_trace] = << << <<Rat(-3, 10)>> >>, << <<Rat(1, 2)>> >> >>
    /\ C6_AfterStep =>
           tensor[Rec(1).weight] = << <<Add(Rat(1, 2), Rat(2, 1000))>> >>

\* C6 witness: the scenario after update_state and step(2)
C6_Witness == C6_AfterStep /\ WeightsChanged

\* C7 (as claimed): no working record, and so no eligibility trace, can be
\* reached through the mapping the caller passed to the constructor.
C7_TraceNotReachable ==
    Ready("MSTDPET") =>
        \A i \in LayerIndex : "e_trace" \notin DOMAIN layers.items[i][2].items

\* C8: for a trace whose maximum is not zero, the weight increment of
\* FedeSTDP.step is the same for the trace scaled by a positive constant.
Scales == {Rat(2, 1), Rat(1, 3)}
C8_ScaleInvariance ==
    Ready("FedeSTDP") =>
        \A i \in LayerIndex : \A c \in Scales :
            TMax(tensor[Rec(i).trace]) # Zero =>
                FedeSTDP_dw(tensor[Rec(i).weight], TScale(tensor[Rec(i).trace], c),
                            self.attrs.lr, self.attrs.w_init, self.attrs.a)
                = FedeSTDP_dw(tensor[Rec(i).weight], tensor[Rec(i).trace],
                              self.attrs.lr, self.attrs.w_init, self.attrs.a)

\* C8 witness: a step has run on a trace that is not uniform and whose
\* maximum is neither 0 nor 1, and the weights are finite
C8_Witness ==
    /\ Ready("FedeSTDP") /\ lastOp[1] = "step" /\ Len(layers.items) = 2
    /\ \A i \in LayerIndex :
           /\ TMax(tensor[Rec(i).trace]) \notin {Zero, One}
           /\ tensor[Rec(i).trace][1][1][1] # TMax(tensor[Rec(i).trace])
           /\ IsFinite(tensor[Rec(i).weight][1][1])
           /\ tensor[Rec(i).weight] # InitialWeight(layers.items[i][1])

\* C9: step(r) leaves every eligibility trace as it was, so that the step(r)
\* that follows it adds the increment this one added.
C9_StepKeepsTrace ==
    [][\A r \in Rewards :
            MSTDPET_step(r) =>
                \A i \in LayerIndex :
                    /\ tensor'[Rec(i).e_trace] = tensor[Rec(i).e_trace]
                    /\ \A o \in 1..Len(tensor[Rec(i).weight]) :
                       \A n \in 1..Len(tensor[Rec(i).weight][1]) :
                           Sub(MSTDPET_step_layer(tensor', Rec(i), self.attrs.lr, r)
                                   [Rec(i).weight][o][n],
                               tensor'[Rec(i).weight][o][n])
                           = Sub(tensor'[Rec(i).weight][o][n],
                                 tensor[Rec(i).weight][o][n])]_vars

\* C9 witness: update_state, then step(2) twice: the weight has moved by
\* twice the increment of the trace that is still there
C9_Witness ==
    /\ Ready("MSTDPET") /\ lastOp = <<"step", Rat(2, 1)>> /\ ncalls = 3
    /\ impulse.on /\ impulse.k = 0
    /\ \A i \in LayerIndex :
           /\ BatchMean(tensor[Rec(i).e_trace], 1, 1) # Zero
           /\ tensor[Rec(i).weight][1][1] =
                  Add(InitialWeight(layers.items[i][1])[1][1],
                      Mul(Rat(2, 1), Mul(Mul(self.attrs.lr, Rat(2, 1)),
                                         BatchMean(tensor[Rec(i).e_trace], 1, 1))))

\* C10 (as claimed): a constructor that raises leaves every entry of the
\* caller's mapping the record it was.
C10_AllOrNothing ==
    [][(pc = "new" /\ pc' = "raised") => layers' = layers]_vars

====
